---- MODULE Spec2Model ----
(***************************************************************************)
(* Workers config of the CLI: the version-0 and version-1 schemas, the     *)
(* v0 -> v1 migration (src/lib/configs/project/workers.ts) and the config  *)
(* driver that loads, validates, migrates and persists the document.       *)
(*                                                                         *)
(* A JavaScript object is modelled as the sequence of its entries          *)
(* [key, val] in key iteration order (what Object.entries yields).  An     *)
(* optional, nullable property is a record [kind, entries] whose kind is   *)
(* "undefined", "null" or "object".                                        *)
(***************************************************************************)
EXTENDS Integers, Sequences, FiniteSets, TLC

(* ------------------------------ bounds --------------------------------- *)
MaxDeals == 2
MaxHosts == 2
\* Records (deals and hosts together) of one enumerated document.
MaxRecords == 3

\* Worker names available to the documents the model enumerates.
WorkerNames == <<"alice", "bob", "carol", "dave">>

(* ----------------------------- constants ------------------------------- *)
\* Keys of configSchemaV1.properties.deals.properties (FluenceEnv).
FLUENCE_ENVS == {"custom", "dar", "kras", "local", "stage"}
\* ChainENV, the enum of dealSchema.chainNetwork: the environments that have a
\* chain, FluenceEnv without "custom" (the list itself is set in const.js).
CHAIN_ENV == {"dar", "kras", "local", "stage"}
\* The public environments; const.js sets DEFAULT_PUBLIC_FLUENCE_ENV to one of
\* them, so the model leaves open which.
PUBLIC_FLUENCE_ENV == {"dar", "kras", "stage"}
LatestVersion == 1

(* --------------------------- JavaScript objects ------------------------ *)
Keys(m) == {m[k].key : k \in 1..Len(m)}
Has(m, key) == key \in Keys(m)
Get(m, key) == m[CHOOSE k \in 1..Len(m) : m[k].key = key].val
\* m[key] = val: an existing key keeps its place, a new key is appended.
Put(m, key, val) ==
  IF Has(m, key)
  THEN [k \in 1..Len(m) |-> IF m[k].key = key THEN [key |-> key, val |-> val] ELSE m[k]]
  ELSE Append(m, [key |-> key, val |-> val])
isEmpty(m) == Len(m) = 0
Nullish(x) == x \in {"undefined", "null"}

Undefined == [kind |-> "undefined", entries |-> <<>>]
Null == [kind |-> "null", entries |-> <<>>]
Obj(m) == [kind |-> "object", entries |-> m]

(* ------------------------------- schemas ------------------------------- *)
WorkerInfoProps == {"timestamp", "definition"}
DealRequired == WorkerInfoProps \cup {"dealId", "dealIdOriginal", "chainNetworkId"}
DealProps == DealRequired \cup {"chainNetwork"}
HostRequired == WorkerInfoProps \cup {"installation_spells", "relayId", "dummyDealId"}
HostProps == HostRequired

\* deal.chainNetwork as JavaScript reads it.
ChainNetworkOf(deal) ==
  IF "chainNetwork" \in deal.fields THEN deal.chainNetwork ELSE "undefined"

dealSchema(deal) ==
  /\ DealRequired \subseteq deal.fields
  /\ deal.fields \subseteq DealProps
  /\ ChainNetworkOf(deal) \in CHAIN_ENV \cup {"undefined", "null"}

hostSchema(host) ==
  /\ HostRequired \subseteq host.fields
  /\ host.fields \subseteq HostProps

mapOfDealsSchema(m) == \A k \in 1..Len(m) : dealSchema(m[k].val)
mapOfHostsSchema(m) == \A k \in 1..Len(m) : hostSchema(m[k].val)

configSchemaV0(config) ==
  /\ config.version = 0
  /\ ~config.extra
  /\ config.deals.kind = "object" => mapOfDealsSchema(config.deals.entries)
  /\ config.hosts.kind = "object" => mapOfHostsSchema(config.hosts.entries)

configSchemaV1(config) ==
  /\ config.version = 1
  /\ ~config.extra
  /\ config.deals.kind = "object" =>
       \A k \in 1..Len(config.deals.entries) :
         /\ config.deals.entries[k].key \in FLUENCE_ENVS
         /\ mapOfDealsSchema(config.deals.entries[k].val)
  /\ config.hosts.kind = "object" =>
       \A k \in 1..Len(config.hosts.entries) :
         /\ config.hosts.entries[k].key \in FLUENCE_ENVS
         /\ mapOfHostsSchema(config.hosts.entries[k].val)

validateConfigSchemaV0(config) == configSchemaV0(config)

(* ------------------------- documents enumerated ------------------------ *)
Deal(fields, chainNetwork) ==
  [fields |-> fields, dealId |-> "x1", chainNetwork |-> chainNetwork]
Host(fields) == [fields |-> fields, dummyDealId |-> "y1"]

ValidDeals == {Deal(DealRequired, "undefined"), Deal(DealProps, "kras")}
InvalidDeals == {Deal(DealProps, "custom"), Deal(DealRequired \ {"dealId"}, "undefined")}
ValidHosts == {Host(HostRequired)}
InvalidHosts == {Host(HostRequired \ {"relayId"})}

\* The flat maps of n records named WorkerNames[1..n].
FlatMaps(recs, max) ==
  UNION {{[k \in 1..n |-> [key |-> WorkerNames[k], val |-> f[k]]] : f \in [1..n -> recs]}
         : n \in 0..max}

OptMaps(recs, max) == {Undefined, Null} \cup {Obj(m) : m \in FlatMaps(recs, max)}

Doc(version, extra, deals, hosts) ==
  [version |-> version, extra |-> extra, deals |-> deals, hosts |-> hosts]

ValidV0Docs ==
  {doc \in {Doc(0, FALSE, d, h) : d \in OptMaps(ValidDeals, MaxDeals),
                                  h \in OptMaps(ValidHosts, MaxHosts)} :
     Len(doc.deals.entries) + Len(doc.hosts.entries) <= MaxRecords}

InvalidV0Docs ==
  {Doc(0, FALSE, Obj(<<[key |-> WorkerNames[1], val |-> d]>>), Undefined) : d \in InvalidDeals}
  \cup {Doc(0, FALSE, Undefined, Obj(<<[key |-> WorkerNames[1], val |-> h]>>)) : h \in InvalidHosts}
  \cup {Doc(0, TRUE, Undefined, Undefined), Doc(99, FALSE, Undefined, Undefined)}

V1Deals(env) ==
  Obj(<<[key |-> env, val |-> <<[key |-> WorkerNames[1], val |-> Deal(DealRequired, "undefined")]>>]>>)

V1Docs ==
  {Doc(1, FALSE, Undefined, Undefined), Doc(1, FALSE, V1Deals("kras"), Undefined),
   Doc(1, FALSE, V1Deals("testnet"), Undefined)}

NoDoc == Doc(-1, FALSE, Undefined, Undefined)

\* getDefault: the template, parsed; everything but `version: 0` is a comment.
getDefault == Doc(0, FALSE, Undefined, Undefined)

(* ------------------------------ migration ------------------------------ *)
\* Mutant of ObjectEntries: the entries in reverse key order.
ObjectEntriesReversed(optMap) ==
  IF optMap.kind = "object"
  THEN [k \in 1..Len(optMap.entries) |-> optMap.entries[Len(optMap.entries) + 1 - k]]
  ELSE <<>>

\* Object.entries(config.deals ?? {})
ObjectEntries(optMap) == IF optMap.kind = "object" THEN optMap.entries ELSE <<>>

\* Lines 285-292: one pass of the deals loop body after the prompt returned.
DealsStep(deals, env, workerName, deal, defaultEnv) ==
  IF Has(deals, env)
  THEN Put(deals, env, Put(Get(deals, env), workerName, deal))
  ELSE Put(deals,
           IF Nullish(ChainNetworkOf(deal)) THEN defaultEnv ELSE ChainNetworkOf(deal),
           Put(<<>>, workerName, deal))

\* Mutant of HostsStep: a new sub-map is stored under the prompt's default
\* instead of the answer, as the deals loop does.
HostsStepDefaultKey(hosts, env, workerName, host) ==
  IF Has(hosts, env)
  THEN Put(hosts, env, Put(Get(hosts, env), workerName, host))
  ELSE Put(hosts, "custom", Put(<<>>, workerName, host))

\* Lines 303-310: one pass of the hosts loop body after the prompt returned.
HostsStep(hosts, env, workerName, host) ==
  IF Has(hosts, env)
  THEN Put(hosts, env, Put(Get(hosts, env), workerName, host))
  ELSE Put(hosts, env, Put(<<>>, workerName, host))

\* Mutant of MigrationResult: the version is not bumped.
MigrationResultVersion0(deals, hosts) ==
  Doc(0, FALSE,
      IF isEmpty(deals) THEN Undefined ELSE Obj(deals),
      IF isEmpty(hosts) THEN Undefined ELSE Obj(hosts))

\* Mutant of MigrationResult: deals and hosts are emitted even when empty.
MigrationResultKeepEmpty(deals, hosts) == Doc(1, FALSE, Obj(deals), Obj(hosts))

\* Lines 313-317: the returned version-1 document.
MigrationResult(deals, hosts) ==
  Doc(1, FALSE,
      IF isEmpty(deals) THEN Undefined ELSE Obj(deals),
      IF isEmpty(hosts) THEN Undefined ELSE Obj(hosts))

VARIABLES
  store,        \* backing store: [exists, doc]
  storeBefore,  \* the backing store before the load attempt
  state,        \* config driver state
  config,       \* the document handed to migrations[0]
  pc,           \* position inside migrations[0]
  i,            \* index of the loop's current entry
  deals,        \* const deals: Deals
  hosts,        \* const hosts: Hosts
  output,       \* [present, doc]: the document migrations[0] returned
  error,        \* the error thrown, "" if none
  promptLog,    \* fluenceEnvPrompt calls issued, in order
  answers,      \* the values the prompts returned, in order
  DEFAULT_PUBLIC_FLUENCE_ENV

vars == <<store, storeBefore, state, config, pc, i, deals, hosts, output, error,
          promptLog, answers, DEFAULT_PUBLIC_FLUENCE_ENV>>

migVars == <<config, pc, i, deals, hosts, output, error, promptLog, answers>>

InitWith(doc, exists) ==
  /\ store = [exists |-> exists, doc |-> doc]
  /\ storeBefore = store
  /\ state = "Uninitialized"
  /\ config = NoDoc
  /\ pc = "idle"
  /\ i = 1
  /\ deals = <<>>
  /\ hosts = <<>>
  /\ output = [present |-> FALSE, doc |-> NoDoc]
  /\ error = ""
  /\ promptLog = <<>>
  /\ answers = <<>>
  /\ DEFAULT_PUBLIC_FLUENCE_ENV \in PUBLIC_FLUENCE_ENV

Init ==
  \/ InitWith(NoDoc, FALSE)
  \/ \E doc \in ValidV0Docs : InitWith(doc, TRUE)
  \/ \E doc \in InvalidV0Docs : InitWith(doc, TRUE)
  \/ \E doc \in V1Docs : InitWith(doc, TRUE)

(* --- migrations[0] --- *)
\* Mutant of MigValidate: only the version of the input is checked.
MigValidateVersionOnly ==
  /\ pc = "validate"
  /\ IF config.version = 0
     THEN /\ pc' = "deals"
          /\ error' = error
     ELSE /\ pc' = "failed"
          /\ error' = "Migration error"
  /\ i' = 1
  /\ deals' = <<>>
  /\ hosts' = <<>>
  /\ UNCHANGED <<store, storeBefore, state, config, output, promptLog, answers,
                 DEFAULT_PUBLIC_FLUENCE_ENV>>

\* Lines 267-277: validate the input, then start the deals loop.
MigValidate ==
  /\ pc = "validate"
  /\ IF validateConfigSchemaV0(config)
     THEN /\ pc' = "deals"
          /\ error' = error
     ELSE /\ pc' = "failed"
          /\ error' = "Migration error"
  /\ i' = 1
  /\ deals' = <<>>
  /\ hosts' = <<>>
  /\ UNCHANGED <<store, storeBefore, state, config, output, promptLog, answers,
                 DEFAULT_PUBLIC_FLUENCE_ENV>>

\* Lines 279-283: the call of fluenceEnvPrompt for the next deal.
DealPromptIssue ==
  /\ pc = "deals"
  /\ i <= Len(ObjectEntries(config.deals))
  /\ LET entry == ObjectEntries(config.deals)[i]
     IN promptLog' = Append(promptLog, [kind |-> "deal", name |-> entry.key,
                                        default |-> ChainNetworkOf(entry.val)])
  /\ pc' = "dealPrompt"
  /\ UNCHANGED <<store, storeBefore, state, config, i, deals, hosts, output, error,
                 answers, DEFAULT_PUBLIC_FLUENCE_ENV>>

\* Mutant of DealPromptAnswer: the progress made so far is saved to the
\* backing store after every answer.
DealPromptAnswerSaving ==
  /\ pc = "dealPrompt"
  /\ \E env \in FLUENCE_ENVS :
       LET entry == ObjectEntries(config.deals)[i]
       IN /\ deals' = DealsStep(deals, env, entry.key, entry.val, DEFAULT_PUBLIC_FLUENCE_ENV)
          /\ answers' = Append(answers, env)
  /\ store' = [exists |-> TRUE, doc |-> MigrationResult(deals', hosts)]
  /\ i' = i + 1
  /\ pc' = "deals"
  /\ UNCHANGED <<storeBefore, state, config, hosts, output, error, promptLog,
                 DEFAULT_PUBLIC_FLUENCE_ENV>>

\* Lines 280-292: the prompt returns env; the deal is filed.
DealPromptAnswer ==
  /\ pc = "dealPrompt"
  /\ \E env \in FLUENCE_ENVS :
       LET entry == ObjectEntries(config.deals)[i]
       IN /\ deals' = DealsStep(deals, env, entry.key, entry.val, DEFAULT_PUBLIC_FLUENCE_ENV)
          /\ answers' = Append(answers, env)
  /\ i' = i + 1
  /\ pc' = "deals"
  /\ UNCHANGED <<store, storeBefore, state, config, hosts, output, error, promptLog,
                 DEFAULT_PUBLIC_FLUENCE_ENV>>

\* Line 295: the deals loop is over.
DealsDone ==
  /\ pc = "deals"
  /\ i > Len(ObjectEntries(config.deals))
  /\ pc' = "hosts"
  /\ i' = 1
  /\ UNCHANGED <<store, storeBefore, state, config, deals, hosts, output, error,
                 promptLog, answers, DEFAULT_PUBLIC_FLUENCE_ENV>>

\* Lines 297-301: the call of fluenceEnvPrompt for the next host.
HostPromptIssue ==
  /\ pc = "hosts"
  /\ i <= Len(ObjectEntries(config.hosts))
  /\ LET entry == ObjectEntries(config.hosts)[i]
     IN promptLog' = Append(promptLog, [kind |-> "host", name |-> entry.key,
                                        default |-> "custom"])
  /\ pc' = "hostPrompt"
  /\ UNCHANGED <<store, storeBefore, state, config, i, deals, hosts, output, error,
                 answers, DEFAULT_PUBLIC_FLUENCE_ENV>>

\* Lines 298-310: the prompt returns env; the host is filed.
HostPromptAnswer ==
  /\ pc = "hostPrompt"
  /\ \E env \in FLUENCE_ENVS :
       LET entry == ObjectEntries(config.hosts)[i]
       IN /\ hosts' = HostsStep(hosts, env, entry.key, entry.val)
          /\ answers' = Append(answers, env)
  /\ i' = i + 1
  /\ pc' = "hosts"
  /\ UNCHANGED <<store, storeBefore, state, config, deals, output, error, promptLog,
                 DEFAULT_PUBLIC_FLUENCE_ENV>>

\* An awaited fluenceEnvPrompt rejects: the migration throws.
PromptThrows ==
  /\ pc \in {"dealPrompt", "hostPrompt"}
  /\ pc' = "failed"
  /\ error' = "Prompt error"
  /\ UNCHANGED <<store, storeBefore, state, config, i, deals, hosts, output,
                 promptLog, answers, DEFAULT_PUBLIC_FLUENCE_ENV>>

\* Lines 313-317.
Return ==
  /\ pc = "hosts"
  /\ i > Len(ObjectEntries(config.hosts))
  /\ output' = [present |-> TRUE, doc |-> MigrationResult(deals, hosts)]
  /\ pc' = "done"
  /\ UNCHANGED <<store, storeBefore, state, config, i, deals, hosts, error,
                 promptLog, answers, DEFAULT_PUBLIC_FLUENCE_ENV>>

(* --- config driver --- *)
\* Uninitialized: first access.
Load ==
  /\ state = "Uninitialized"
  /\ IF store.exists
     THEN /\ state' = "Validating"
          /\ store' = store
     ELSE /\ state' = "Loaded"
          /\ store' = [exists |-> TRUE, doc |-> getDefault]
  /\ UNCHANGED <<storeBefore, migVars, DEFAULT_PUBLIC_FLUENCE_ENV>>

\* Validating: the document against the schema of its declared version.
Validate ==
  /\ state = "Validating"
  /\ IF store.doc.version = 0 /\ configSchemaV0(store.doc)
     THEN /\ state' = "Migrating"
          /\ config' = store.doc
          /\ pc' = "validate"
          /\ error' = error
     ELSE IF store.doc.version = LatestVersion /\ configSchemaV1(store.doc)
     THEN /\ state' = "Loaded"
          /\ UNCHANGED <<config, pc, error>>
     ELSE /\ state' = "Failed"
          /\ error' = IF store.doc.version \in {0, LatestVersion}
                      THEN "ValidationFailure" ELSE "UnknownVersion"
          /\ UNCHANGED <<config, pc>>
  /\ UNCHANGED <<store, storeBefore, i, deals, hosts, output, promptLog, answers,
                 DEFAULT_PUBLIC_FLUENCE_ENV>>

\* Migrating: the chain ended; validate its output and persist it.
Persist ==
  /\ state = "Migrating"
  /\ pc = "done"
  /\ IF configSchemaV1(output.doc)
     THEN /\ state' = "Loaded"
          /\ store' = [exists |-> TRUE, doc |-> output.doc]
     ELSE /\ state' = "Failed"
          /\ store' = store
  /\ UNCHANGED <<storeBefore, migVars, DEFAULT_PUBLIC_FLUENCE_ENV>>

\* Migrating: a step threw; nothing is persisted.
MigrationFailed ==
  /\ state = "Migrating"
  /\ pc = "failed"
  /\ state' = "Failed"
  /\ UNCHANGED <<store, storeBefore, migVars, DEFAULT_PUBLIC_FLUENCE_ENV>>

\* migrations[0] applied to the stored document as it is, whatever its shape.
CallMigration ==
  /\ state = "Uninitialized"
  /\ store.exists
  /\ state' = "Direct"
  /\ config' = store.doc
  /\ pc' = "validate"
  /\ UNCHANGED <<store, storeBefore, i, deals, hosts, output, error, promptLog,
                 answers, DEFAULT_PUBLIC_FLUENCE_ENV>>

Next ==
  \/ MigValidate
  \/ DealPromptIssue
  \/ DealPromptAnswer
  \/ DealsDone
  \/ HostPromptIssue
  \/ HostPromptAnswer
  \/ PromptThrows
  \/ Return
  \/ Load
  \/ Validate
  \/ Persist
  \/ MigrationFailed
  \/ CallMigration

Spec == Init /\ [][Next]_vars

\* The awaited steps continue once the awaited promise settles: every prompt
\* eventually returns or rejects, every driver step eventually runs.
FairSpec == Init /\ [][Next]_vars /\ WF_vars(Next)

(* ----------------------- vocabulary of the properties ------------------ *)
OriginalDeals == IF config.deals.kind = "object" THEN config.deals.entries ELSE <<>>
OriginalHosts == IF config.hosts.kind = "object" THEN config.hosts.entries ELSE <<>>
OutDeals == IF output.doc.deals.kind = "object" THEN output.doc.deals.entries ELSE <<>>
OutHosts == IF output.doc.hosts.kind = "object" THEN output.doc.hosts.entries ELSE <<>>

\* The categories of the nested map m whose sub-map holds the record name.
CategoriesOf(m, name) == {k \in 1..Len(m) : Has(m[k].val, name)}

\* Every record of the flat map appears in exactly one category of the nested
\* map, under its name and unchanged, and the nested map holds nothing else.
Regrouped(flat, nested) ==
  /\ \A k \in 1..Len(flat) :
       /\ Cardinality(CategoriesOf(nested, flat[k].key)) = 1
       /\ \A c \in CategoriesOf(nested, flat[k].key) :
            Get(nested[c].val, flat[k].key) = flat[k].val
  /\ \A c \in 1..Len(nested) :
       /\ Keys(nested[c].val) \subseteq Keys(flat)
       /\ Cardinality(Keys(nested[c].val)) = Len(nested[c].val)
  /\ Cardinality(Keys(nested)) = Len(nested)

DealPrompts == {k \in 1..Len(promptLog) : promptLog[k].kind = "deal"}
HostPrompts == {k \in 1..Len(promptLog) : promptLog[k].kind = "host"}

SameStore(a, b) == a.exists = b.exists /\ a.doc.version = b.doc.version /\ a.doc = b.doc

(* ------------------------------- C1 ------------------------------------ *)
\* C1: the version-1 output of the migration contains every original deal and
\* every original host exactly once, under its original record name, nested
\* under exactly one environment category.
C1_EveryRecordExactlyOnce ==
  pc = "done" => Regrouped(OriginalDeals, OutDeals) /\ Regrouped(OriginalHosts, OutHosts)

(* ------------------------------- C2 ------------------------------------ *)
\* C2: a deal whose chainNetwork is present is filed under its chainNetwork
\* and no prompt is issued for it; prompts are issued only for deals without
\* chainNetwork.
C2_NoPromptWhenChainNetwork ==
  /\ \A k \in DealPrompts :
       \A j \in 1..Len(OriginalDeals) :
         OriginalDeals[j].key = promptLog[k].name => Nullish(ChainNetworkOf(OriginalDeals[j].val))
  /\ pc = "done" =>
       \A j \in 1..Len(OriginalDeals) :
         ~Nullish(ChainNetworkOf(OriginalDeals[j].val)) =>
           /\ Has(OutDeals, ChainNetworkOf(OriginalDeals[j].val))
           /\ Has(Get(OutDeals, ChainNetworkOf(OriginalDeals[j].val)), OriginalDeals[j].key)

(* ------------------------------- C3 ------------------------------------ *)
\* C3: a finished migration issued exactly one prompt per entry of the
\* version-0 hosts map, and each host is in the output at
\* hosts[answer][workerName] for the answer given to its prompt.
C3_HostsUnderAnswer ==
  pc = "done" =>
    /\ Cardinality(HostPrompts) = Len(OriginalHosts)
    /\ \A j \in 1..Len(OriginalHosts) :
         Cardinality({k \in HostPrompts : promptLog[k].name = OriginalHosts[j].key}) = 1
    /\ \A k \in HostPrompts :
         /\ Has(OutHosts, answers[k])
         /\ Has(Get(OutHosts, answers[k]), promptLog[k].name)
         /\ \A j \in 1..Len(OriginalHosts) :
              OriginalHosts[j].key = promptLog[k].name =>
                Get(Get(OutHosts, answers[k]), promptLog[k].name) = OriginalHosts[j].val

C3_Witness ==
  /\ pc = "done"
  /\ Len(OriginalHosts) = 2
  /\ \E k \in HostPrompts :
       /\ answers[k] = "custom"
       /\ Has(OutHosts, "custom")
       /\ Has(Get(OutHosts, "custom"), promptLog[k].name)

(* ------------------------------- C4 ------------------------------------ *)
\* C4: on a document the version-0 schema accepts, with answers from the
\* fixed environment set, the migration terminates; unless a prompt rejected
\* it returns, and what it returns is accepted by the version-1 schema.
C4_TotalMigration ==
  /\ [](pc = "done" => output.present /\ configSchemaV1(output.doc))
  /\ [](pc = "failed" /\ configSchemaV0(config) => error = "Prompt error")
  /\ []((pc = "validate" /\ configSchemaV0(config)) => <>(pc \in {"done", "failed"}))

C4_Witness ==
  /\ pc = "done"
  /\ Len(OriginalDeals) = 2
  /\ Len(OriginalHosts) >= 1
  /\ configSchemaV1(output.doc)
  /\ Len(OutDeals) = 2

(* ------------------------------- C5 ------------------------------------ *)
\* C5: while the migration runs and after it failed (the input failed the
\* version-0 validation, or a prompt threw after any number of answered
\* prompts) the backing store holds what it held before the attempt.
C5_NoPartialWrite ==
  state \in {"Migrating", "Direct", "Failed"} => SameStore(store, storeBefore)

C5_Witness ==
  /\ state = "Failed"
  /\ error = "Prompt error"
  /\ Len(answers) >= 2
  /\ SameStore(store, storeBefore)

(* ------------------------------- C6 ------------------------------------ *)
\* C6: after a load that ends in Loaded, also when the backing store was
\* absent and the default template was written, the stored document has the
\* latest version.
C6_LoadedIsLatest ==
  state = "Loaded" => store.exists /\ store.doc.version = LatestVersion

(* ------------------------------- C7 ------------------------------------ *)
\* C7: the output has no empty category: every environment key under deals
\* or hosts maps to a sub-map with at least one record, and deals (hosts) is
\* omitted when the version-0 document has no deals (hosts).
C7_NoEmptyCategory ==
  pc = "done" =>
    /\ output.doc.deals.kind \in {"undefined", "object"}
    /\ output.doc.hosts.kind \in {"undefined", "object"}
    /\ Len(OriginalDeals) = 0 => output.doc.deals.kind = "undefined"
    /\ Len(OriginalHosts) = 0 => output.doc.hosts.kind = "undefined"
    /\ output.doc.deals.kind = "object" => Len(output.doc.deals.entries) > 0
    /\ output.doc.hosts.kind = "object" => Len(output.doc.hosts.entries) > 0
    /\ \A k \in 1..Len(OutDeals) : Len(OutDeals[k].val) > 0
    /\ \A k \in 1..Len(OutHosts) : Len(OutHosts[k].val) > 0

C7_Witness ==
  /\ pc = "done"
  /\ config.deals.kind = "object"
  /\ Len(OriginalDeals) = 0
  /\ Len(OriginalHosts) = 2
  /\ output.doc.deals.kind = "undefined"
  /\ Len(OutHosts) = 2

(* ------------------------------- C8 ------------------------------------ *)
\* C8: prompts are issued one at a time, first for the deals in the key
\* iteration order of the version-0 deals map, then for the hosts in the
\* order of the hosts map; a prompt is issued only after every earlier one
\* was answered.
C8_PromptOrder ==
  /\ Len(promptLog) <= Len(OriginalDeals) + Len(OriginalHosts)
  /\ \A k \in 1..Len(promptLog) :
       IF k <= Len(OriginalDeals)
       THEN promptLog[k].kind = "deal" /\ promptLog[k].name = OriginalDeals[k].key
       ELSE /\ promptLog[k].kind = "host"
            /\ promptLog[k].name = OriginalHosts[k - Len(OriginalDeals)].key
  /\ Len(answers) <= Len(promptLog)
  /\ Len(promptLog) <= Len(answers) + 1
  /\ pc \in {"dealPrompt", "hostPrompt"} <=> Len(promptLog) = Len(answers) + 1 /\ pc # "failed"
  /\ pc = "done" => Len(promptLog) = Len(OriginalDeals) + Len(OriginalHosts)

C8_Witness ==
  /\ pc = "hostPrompt"
  /\ Len(OriginalDeals) = 2
  /\ Len(promptLog) = 3
  /\ Len(answers) = 2

(* ------------------------------- C9 ------------------------------------ *)
\* C9: on an input the version-0 schema rejects (a version-1 document
\* included) the migration fails with a migration error before anything
\* else: no prompt is issued and no document is returned.
C9_ValidatesFirst ==
  (pc \notin {"idle", "validate"} /\ ~configSchemaV0(config)) =>
    /\ pc = "failed"
    /\ error = "Migration error"
    /\ promptLog = <<>>
    /\ ~output.present

C9_Witness ==
  /\ pc = "failed"
  /\ config.version = 1
  /\ config.deals.kind = "object"
  /\ error = "Migration error"
  /\ promptLog = <<>>

(* ------------------------------- C10 ----------------------------------- *)
\* C10: each deal already filed is in the sub-map of the environment the
\* operator selected for it: the key a new sub-map is stored under is the
\* key env it was looked up with.
C10_DealsUnderAnswer ==
  \A k \in DealPrompts :
    k <= Len(answers) =>
      /\ Has(deals, answers[k])
      /\ Has(Get(deals, answers[k]), promptLog[k].name)

====
